---- MODULE Spec2Model ----
(***************************************************************************)
(* A model of the data layer of the crime-statistics dashboard             *)
(* (src/utils/data.py): the DataLoader aggregations, the column            *)
(* normaliser and calculate_crime_rate.                                    *)
(*                                                                         *)
(* A pandas DataFrame is a record [columns, rows]: columns is the sequence *)
(* of column labels, rows the sequence of rows, each row the tuple of its  *)
(* cells in column order.  A cell is a string, a number, the missing value *)
(* NaN or an infinity.  Numbers are exact rationals n/d in lowest terms:   *)
(* the rounding error of IEEE doubles is not modelled.                     *)
(***************************************************************************)
EXTENDS Integers, Sequences, FiniteSets, TLC

VARIABLES
    df,        \* the caller's table: the DataFrame object passed to the call
    df0,       \* the value of that table when the caller built it
    call,      \* the last call: its name and its arguments
    ret,       \* what the last call returned
    sortKind,  \* how this build's default (unstable) sort orders equal keys
    threads,   \* callers running at the same time: each one's call in progress
    LITELLM_AVAILABLE,     \* chatbot.py: did the import of litellm succeed
    default_model,         \* CrimeAnalysisBot.default_model
    fallback_model,        \* CrimeAnalysisBot.fallback_model
    conversation_history,  \* CrimeAnalysisBot.conversation_history
    stack,        \* the frames of generate_response in progress, outermost first
    completions,  \* the completion() calls made since the caller's call began
    cache_file,   \* data/crime_data.csv: its text, or None while it does not exist
    memo          \* st.cache_data of load_crime_data: result stored per argument

botVars ==
    <<LITELLM_AVAILABLE, default_model, fallback_model, conversation_history,
      stack, completions>>
loaderVars == <<cache_file, memo>>

vars == <<df, df0, call, ret, sortKind, threads, botVars, loaderVars>>

-----------------------------------------------------------------------------
(* Bounds of the model.                                                    *)

MaxRows == 3        \* rows of an input table
MaxCount == 2       \* largest count held by one cell
MaxN == 2           \* largest n passed to get_top_departments
MaxRawRows == 2     \* rows of a raw table given to the normaliser
MaxCrimes == 10     \* largest small total_crimes given to calculate_crime_rate
MaxPopulation == 9  \* largest small population given to calculate_crime_rate
MaxSharedRows == 2  \* rows of a table shared by two threads
MaxSummaryRows == 2 \* rows of a table with any of the summarised columns
MaxExchanges == 2   \* exchanges the history of a bot holds before the calls stop
RecursionLimit == 3 \* nested calls the interpreter allows (sys.getrecursionlimit())
MaxSourceRows == 3  \* lines of the remote file
MaxSample == 2      \* largest sample_size given to load_crime_data
MaxDemoRows == 2    \* rows of the demonstration table

-----------------------------------------------------------------------------
(* Cells.                                                                  *)

Str(s) == [kind |-> "str", s |-> s]
NaN == [kind |-> "nan"]
Inf(sign) == [kind |-> "inf", sign |-> sign]

Abs(x) == IF x < 0 THEN -x ELSE x

RECURSIVE Gcd(_, _)
Gcd(a, b) == IF b = 0 THEN a ELSE Gcd(b, a % b)

\* The number p/q (q # 0), in lowest terms with a positive denominator.
Rat(p, q) ==
    LET g == Gcd(Abs(p), Abs(q))
        s == IF q < 0 THEN -1 ELSE 1
    IN [kind |-> "num", n |-> (s * p) \div g, d |-> (s * q) \div g]

Num(x) == [kind |-> "num", n |-> x, d |-> 1]

\* pandas.isna
IsNA(c) == c.kind = "nan"

\* Python's truth value of an optional argument (None, 0 and "" are false).
None == [kind |-> "none"]
Truthy(a) ==
    CASE a.kind = "none" -> FALSE
      [] a.kind = "num" -> a.n # 0
      [] a.kind = "str" -> a.s # ""
      [] OTHER -> TRUE

\* No call made yet.
NoCall == [op |-> "none"]

\* Float arithmetic on cells (NaN propagates, x/0 is an infinity or NaN).
FAdd(a, b) ==
    CASE IsNA(a) \/ IsNA(b) -> NaN
      [] a.kind = "inf" /\ b.kind = "inf" -> IF a.sign = b.sign THEN a ELSE NaN
      [] a.kind = "inf" -> a
      [] b.kind = "inf" -> b
      [] OTHER -> Rat(a.n * b.d + b.n * a.d, a.d * b.d)

Sign(x) == IF x < 0 THEN -1 ELSE IF x > 0 THEN 1 ELSE 0

FMul(a, b) ==
    CASE IsNA(a) \/ IsNA(b) -> NaN
      [] a.kind = "inf" /\ b.kind = "inf" -> Inf(a.sign * b.sign)
      [] a.kind = "inf" -> IF b.n = 0 THEN NaN ELSE Inf(a.sign * Sign(b.n))
      [] b.kind = "inf" -> IF a.n = 0 THEN NaN ELSE Inf(b.sign * Sign(a.n))
      [] OTHER -> Rat(a.n * b.n, a.d * b.d)

FDiv(a, b) ==
    CASE IsNA(a) \/ IsNA(b) -> NaN
      [] a.kind = "inf" /\ b.kind = "inf" -> NaN
      [] a.kind = "inf" -> Inf(a.sign * (IF b.n < 0 THEN -1 ELSE 1))
      [] b.kind = "inf" -> Num(0)
      [] b.n = 0 -> IF a.n = 0 THEN NaN ELSE Inf(Sign(a.n))
      [] OTHER -> Rat(a.n * b.d, a.d * b.n)

-----------------------------------------------------------------------------
(* Order of cells, as the sorts of pandas see it.  The strings of the      *)
(* model, in Python's string order (code points).                          *)

Collation == <<"", "59", "75", "A", "B", "C", "Nord", "Paris">>

StrRank(s) == CHOOSE i \in DOMAIN Collation : Collation[i] = s

CellLess(a, b) ==
    CASE a.kind = "str" /\ b.kind = "str" -> StrRank(a.s) < StrRank(b.s)
      [] a.kind = "num" /\ b.kind = "num" -> a.n * b.d < b.n * a.d
      [] OTHER -> FALSE

\* Lexicographic order of key tuples of the same length.
KeyLess(k1, k2) ==
    \E i \in DOMAIN k1 :
        /\ CellLess(k1[i], k2[i])
        /\ \A j \in 1..(i - 1) : k1[j] = k2[j]

\* The elements of the set of key tuples S, ascending.
RECURSIVE SortedKeys(_)
SortedKeys(S) ==
    IF S = {} THEN <<>>
    ELSE LET m == CHOOSE k \in S : \A o \in S : ~KeyLess(o, k)
         IN <<m>> \o SortedKeys(S \ {m})

-----------------------------------------------------------------------------
(* DataFrames.                                                             *)

HasCol(d, c) == \E i \in DOMAIN d.columns : d.columns[i] = c

ColIdx(d, c) == CHOOSE i \in DOMAIN d.columns : d.columns[i] = c

\* df[df[col] == value]: a new frame holding the matching rows, in order.
FilterEq(d, c, v) ==
    [columns |-> d.columns,
     rows |-> SelectSeq(d.rows, LAMBDA r : r[ColIdx(d, c)] = v)]

\* df[name] = values: the column is appended (the label is new).
WithColumn(d, name, values) ==
    [columns |-> Append(d.columns, name),
     rows |-> [i \in DOMAIN d.rows |-> Append(d.rows[i], values[i])]]

RECURSIVE SumCells(_)
\* Series.sum(): missing values are skipped.
SumCells(s) ==
    IF s = <<>> THEN Num(0)
    ELSE IF IsNA(Head(s)) THEN SumCells(Tail(s))
    ELSE FAdd(Head(s), SumCells(Tail(s)))

\* str.isdigit() and 'mois' in col.lower(), on the column labels of the model.
IsDigitLabel(c) == c \in {"1", "2"}
HasMoisInLabel(c) == c \in {"Mois2", "mois_1"}

\* [col for col in df.columns if col.isdigit() or 'mois' in col.lower()]
month_cols(d) ==
    {i \in DOMAIN d.columns :
        IsDigitLabel(d.columns[i]) \/ HasMoisInLabel(d.columns[i])}

RECURSIVE SumOver(_, _)
SumOver(r, I) ==
    IF I = {} THEN Num(0)
    ELSE LET i == CHOOSE j \in I : TRUE
         IN IF IsNA(r[i]) THEN SumOver(r, I \ {i})
            ELSE FAdd(r[i], SumOver(r, I \ {i}))

\* The count column defaulted to 1 whenever it is absent, period columns or
\* not.
EnsureFaits_ones(d) ==
    IF HasCol(d, "faits") THEN d
    ELSE WithColumn(d, "faits", [i \in DOMAIN d.rows |-> Num(1)])

\* The frame an aggregation works on after its "if 'faits' not in df.columns"
\* block: d itself when it has the column, else d with the column added.
EnsureFaits(d) ==
    IF HasCol(d, "faits") THEN d
    ELSE IF month_cols(d) # {}
         THEN WithColumn(d, "faits",
                  [i \in DOMAIN d.rows |-> SumOver(d.rows[i], month_cols(d))])
         ELSE WithColumn(d, "faits", [i \in DOMAIN d.rows |-> Num(1)])

\* The key of row r under the grouping columns cs (a sequence of labels).
KeyOf(d, r, cs) == [j \in DOMAIN cs |-> r[ColIdx(d, cs[j])]]

\* df.groupby(cs): the group keys, ascending; a row with a missing key cell
\* belongs to no group (dropna=True, sort=True are the defaults).
GroupKeys(d, cs) ==
    SortedKeys({KeyOf(d, d.rows[i], cs) : i \in
        {i \in DOMAIN d.rows :
            \A j \in DOMAIN cs : ~IsNA(KeyOf(d, d.rows[i], cs)[j])}})

GroupRows(d, cs, k) == SelectSeq(d.rows, LAMBDA r : KeyOf(d, r, cs) = k)

ColumnOf(d, rs, c) == [i \in DOMAIN rs |-> rs[i][ColIdx(d, c)]]

\* Series.count(): the number of non-missing values.
CountCells(s) == Cardinality({i \in DOMAIN s : ~IsNA(s[i])})

-----------------------------------------------------------------------------
(* Sorting.  sort_values(col, ascending=False) uses the default kind,      *)
(* quicksort, which is not stable: the order of rows with equal keys is    *)
(* whatever the build's sort produces (numpy's insertion sort on short     *)
(* arrays keeps them in order, its vectorised sorts do not).  The outcome  *)
(* is a function of the input, fixed per build by sortKind.                *)

SortKinds == {"stable", "reversed"}

\* Does the row at position i come before the row at position j ?
Before(rs, c, kind, i, j) ==
    \/ CellLess(rs[j][c], rs[i][c])
    \/ /\ ~CellLess(rs[i][c], rs[j][c])
       /\ IF kind = "stable" THEN i < j ELSE j < i

RECURSIVE SortPositions(_, _, _, _)
SortPositions(rs, c, kind, I) ==
    IF I = {} THEN <<>>
    ELSE LET m == CHOOSE i \in I : \A j \in I \ {i} : Before(rs, c, kind, i, j)
         IN <<m>> \o SortPositions(rs, c, kind, I \ {m})

\* d.sort_values(c, ascending=False)
SortDesc(d, c, kind) ==
    LET p == SortPositions(d.rows, ColIdx(d, c), kind, DOMAIN d.rows)
    IN [columns |-> d.columns, rows |-> [i \in DOMAIN p |-> d.rows[p[i]]]]

\* d.head(n), n >= 0
HeadRows(d, n) ==
    [columns |-> d.columns,
     rows |-> SubSeq(d.rows, 1, IF n < Len(d.rows) THEN n ELSE Len(d.rows))]

Renamed(d, cols) == [columns |-> cols, rows |-> d.rows]

-----------------------------------------------------------------------------
(* DataLoader.get_department_stats                                         *)

DeptKey == <<"code_dept", "departement">>

\* src/utils/data.py 133-140
DeptStatsOf(w, kind) ==
    LET ks == GroupKeys(w, DeptKey)
        stats ==
            [columns |-> <<"code_dept", "departement", "faits", "annee">>,
             rows |-> [i \in DOMAIN ks |->
                 LET g == GroupRows(w, DeptKey, ks[i])
                 IN <<ks[i][1], ks[i][2],
                      SumCells(ColumnOf(w, g, "faits")),
                      Num(CountCells(ColumnOf(w, g, "annee")))>>]]
        named == Renamed(stats,
            <<"code_dept", "departement", "total_faits", "nb_enregistrements">>)
    IN SortDesc(named, "total_faits", kind)

\* The whole call: the "faits" column is added to the caller's own frame.
get_department_stats ==
    /\ call' = [op |-> "get_department_stats"]
    /\ df' = EnsureFaits(df)
    /\ ret' = DeptStatsOf(EnsureFaits(df), sortKind)
    /\ UNCHANGED <<df0, sortKind, threads, botVars, loaderVars>>

-----------------------------------------------------------------------------------------------------------------------------------------------------
(* DataLoader.get_temporal_evolution                                       *)

\* A pct_change that divides by the current element instead of the previous:
\* (x[i] - x[i-1]) / x[i].
pct_change_by_current(s) ==
    [i \in DOMAIN s |->
        IF i = 1 THEN NaN ELSE FAdd(Num(1), FMul(Num(-1), FDiv(s[i - 1], s[i])))]

\* Series.pct_change(): x[i] / x[i-1] - 1, missing for the first element.
pct_change(s) ==
    [i \in DOMAIN s |->
        IF i = 1 THEN NaN ELSE FAdd(FDiv(s[i], s[i - 1]), Num(-1))]

\* src/utils/data.py 165-171
EvolutionOf(w) ==
    LET ks == GroupKeys(w, <<"annee">>)
        evolution ==
            [columns |-> <<"annee", "total_faits">>,
             rows |-> [i \in DOMAIN ks |->
                 <<ks[i][1],
                   SumCells(ColumnOf(w, GroupRows(w, <<"annee">>, ks[i]), "faits"))>>]]
        pct == pct_change(ColumnOf(evolution, evolution.rows, "total_faits"))
    IN WithColumn(evolution, "evolution_pct",
           [i \in DOMAIN pct |-> FMul(pct[i], Num(100))])

\* The whole call.  With a dept_code the name df is rebound to the filtered
\* frame, a new object, and the "faits" column goes to that one; without,
\* it goes to the caller's frame.
get_temporal_evolution(dept_code) ==
    LET w0 == IF Truthy(dept_code) THEN FilterEq(df, "code_dept", dept_code) ELSE df
    IN /\ call' = [op |-> "get_temporal_evolution", dept_code |-> dept_code]
       /\ df' = IF Truthy(dept_code) THEN df ELSE EnsureFaits(df)
       /\ ret' = EvolutionOf(EnsureFaits(w0))
       /\ UNCHANGED <<df0, sortKind, threads, botVars, loaderVars>>

-----------------------------------------------------------------------------
(* DataLoader.get_crime_types_distribution                                 *)

\* Series.round(2): to the nearest hundredth, a tie to the even one.
Round2(c) ==
    IF c.kind # "num" THEN c
    ELSE LET p == 100 * c.n
             q == p \div c.d          \* floor, the denominator is positive
             r == p - q * c.d
         IN IF 2 * r < c.d THEN Rat(q, 100)
            ELSE IF 2 * r > c.d THEN Rat(q + 1, 100)
            ELSE IF q % 2 = 0 THEN Rat(q, 100) ELSE Rat(q + 1, 100)

RECURSIVE MaxCell(_)
MaxCell(s) ==
    IF Len(s) = 1 THEN Head(s)
    ELSE LET m == MaxCell(Tail(s)) IN IF CellLess(m, Head(s)) THEN Head(s) ELSE m

\* A percentage taken of the largest total instead of the sum of the totals.
Pourcentage_of_max(totals) ==
    [i \in DOMAIN totals |->
        Round2(FMul(FDiv(totals[i], MaxCell(totals)), Num(100)))]

\* The percentages with .fillna(0): an undefined share is written as 0.
Pourcentage_fill_zero(totals) ==
    LET sum == SumCells(totals)
    IN [i \in DOMAIN totals |->
           LET p == Round2(FMul(FDiv(totals[i], sum), Num(100)))
           IN IF IsNA(p) THEN Num(0) ELSE p]

\* (distribution['total'] / distribution['total'].sum() * 100).round(2)
Pourcentage(totals) ==
    LET sum == SumCells(totals)
    IN [i \in DOMAIN totals |-> Round2(FMul(FDiv(totals[i], sum), Num(100)))]

\* The filters of lines 190-194 on the copy of the caller's frame.
DistFiltered(d, dept_code, year) ==
    LET f1 == IF Truthy(dept_code) THEN FilterEq(d, "code_dept", dept_code) ELSE d
    IN IF Truthy(year) THEN FilterEq(f1, "annee", year) ELSE f1

\* src/utils/data.py 203-210
DistributionOf(w, kind) ==
    LET ks == GroupKeys(w, <<"classe">>)
        grouped ==
            [columns |-> <<"type_crime", "total">>,
             rows |-> [i \in DOMAIN ks |->
                 <<ks[i][1],
                   SumCells(ColumnOf(w, GroupRows(w, <<"classe">>, ks[i]), "faits"))>>]]
        distribution == SortDesc(grouped, "total", kind)
    IN WithColumn(distribution, "pourcentage",
           Pourcentage(ColumnOf(distribution, distribution.rows, "total")))

\* The whole call: it works on df.copy(), the caller's frame is not touched.
get_crime_types_distribution(dept_code, year) ==
    /\ call' = [op |-> "get_crime_types_distribution",
                dept_code |-> dept_code, year |-> year]
    /\ ret' = DistributionOf(EnsureFaits(DistFiltered(df, dept_code, year)), sortKind)
    /\ UNCHANGED <<df, df0, sortKind, threads, botVars, loaderVars>>

-----------------------------------------------------------------------------
(* DataLoader.get_top_departments                                          *)

\* The filter of lines 229-230 on the copy of the caller's frame.
TopFiltered(d, year) == IF Truthy(year) THEN FilterEq(d, "annee", year) ELSE d

\* head(n) taken before the sort instead of after it.
SortedHead_head_first(grouped, n, kind) == SortDesc(HeadRows(grouped, n), "faits", kind)

\* top.sort_values('faits', ascending=False).head(n)
SortedHead(grouped, n, kind) == HeadRows(SortDesc(grouped, "faits", kind), n)

\* src/utils/data.py 239-243
TopOf(w, n, kind) ==
    LET ks == GroupKeys(w, DeptKey)
        grouped ==
            [columns |-> <<"code_dept", "departement", "faits">>,
             rows |-> [i \in DOMAIN ks |->
                 <<ks[i][1], ks[i][2],
                   SumCells(ColumnOf(w, GroupRows(w, DeptKey, ks[i]), "faits"))>>]]
    IN Renamed(SortedHead(grouped, n, kind),
               <<"code_dept", "departement", "total_faits">>)

\* The whole call: it works on df.copy(), the caller's frame is not touched.
get_top_departments(n, year) ==
    /\ call' = [op |-> "get_top_departments", n |-> n, year |-> year]
    /\ ret' = TopOf(EnsureFaits(TopFiltered(df, year)), n, sortKind)
    /\ UNCHANGED <<df, df0, sortKind, threads, botVars, loaderVars>>

-----------------------------------------------------------------------------------------------------------------------------------------------------
(* calculate_crime_rate                                                    *)

Raised(e) == [kind |-> "raise", error |-> e]
IsRaised(v) == "kind" \in DOMAIN v /\ v.kind = "raise"

\* Python's a / b on integers.
PyTrueDiv(a, b) == IF b = 0 THEN Raised("ZeroDivisionError") ELSE Rat(a, b)

\* The function without its "if population == 0" guard.
CrimeRate_no_guard(total_crimes, population) ==
    LET q == PyTrueDiv(total_crimes, population)
    IN IF IsRaised(q) THEN q ELSE FMul(q, Num(1000))

\* The function with a rate per 100 inhabitants.
CrimeRate_per_hundred(total_crimes, population) ==
    IF population = 0 THEN Num(0)
    ELSE FMul(PyTrueDiv(total_crimes, population), Num(100))

\* src/utils/data.py 276-278
CrimeRate(total_crimes, population) ==
    IF population = 0 THEN Num(0)
    ELSE FMul(PyTrueDiv(total_crimes, population), Num(1000))

calculate_crime_rate(total_crimes, population) ==
    /\ call' = [op |-> "calculate_crime_rate",
                total_crimes |-> total_crimes, population |-> population]
    /\ ret' = CrimeRate(total_crimes, population)
    /\ UNCHANGED <<df, df0, sortKind, threads, botVars, loaderVars>>

-----------------------------------------------------------------------------
(* The aggregations called from several threads on one table.  A call is   *)
(* a sequence of steps, one for each access to the caller's frame, and the *)
(* steps of the threads interleave.  df['faits'] = ... (lines 129, 131,    *)
(* 161, 163) inserts a column into the caller's frame in several steps of  *)
(* the library, and pandas takes no lock: an access by another thread      *)
(* while the insertion is under way is a data race.  It finds the frame as *)
(* it was before, as it is after, or half-changed (the label in place, the *)
(* values not yet), and a half-changed frame makes the call fail.          *)

Threads == {1, 2}

Idle == [pc |-> "idle", call |-> NoCall, frame |-> NaN, result |-> NaN]

\* What the call c returns on the table d.
ResultOn(c, d) ==
    CASE c.op = "get_department_stats" -> DeptStatsOf(EnsureFaits(d), sortKind)
      [] c.op = "get_temporal_evolution" ->
           EvolutionOf(EnsureFaits(
               IF Truthy(c.dept_code) THEN FilterEq(d, "code_dept", c.dept_code) ELSE d))
      [] c.op = "get_crime_types_distribution" ->
           DistributionOf(EnsureFaits(DistFiltered(d, c.dept_code, c.year)), sortKind)
      [] c.op = "get_top_departments" ->
           TopOf(EnsureFaits(TopFiltered(d, c.year)), c.n, sortKind)

\* The calls that work on the caller's frame itself: get_department_stats,
\* and get_temporal_evolution when its filter is not applied.  The others
\* begin by taking a copy (lines 188, 227) or a filtered frame (line 156).
WorksInPlace(c) ==
    \/ c.op = "get_department_stats"
    \/ c.op = "get_temporal_evolution" /\ ~Truthy(c.dept_code)

\* Is another thread in the middle of df['faits'] = ... ?
WriteInProgress(t) == \E u \in Threads \ {t} : threads[u].pc = "storing"

TornFrame == [kind |-> "torn"]

Enter(t, c) ==
    /\ threads[t].pc = "idle"
    /\ threads' = [threads EXCEPT ![t] =
           [pc |-> IF WorksInPlace(c) THEN "test" ELSE "copy",
            call |-> c, frame |-> NaN, result |-> NaN]]
    /\ UNCHANGED <<df, df0, call, ret, sortKind, botVars, loaderVars>>

\* if 'faits' not in df.columns:  (lines 125, 158)
TestFaits(t) ==
    /\ threads[t].pc = "test"
    /\ \E present \in {HasCol(df, "faits")} \cup (IF WriteInProgress(t) THEN {TRUE} ELSE {}) :
           threads' = [threads EXCEPT ![t].pc = IF present THEN "aggregate" ELSE "store"]
    /\ UNCHANGED <<df, df0, call, ret, sortKind, botVars, loaderVars>>

\* lines 127-131, 160-163: the counts are computed and the insertion of the
\* column begins ...
BeginStore(t) ==
    /\ threads[t].pc = "store"
    /\ threads' = [threads EXCEPT ![t].pc = "storing"]
    /\ UNCHANGED <<df, df0, call, ret, sortKind, botVars, loaderVars>>

\* ... and ends: the caller's frame has the column.
EndStore(t) ==
    /\ threads[t].pc = "storing"
    /\ df' = EnsureFaits(df)
    /\ threads' = [threads EXCEPT ![t].pc = "aggregate"]
    /\ UNCHANGED <<df0, call, ret, sortKind, botVars, loaderVars>>

\* lines 133-140, 165-171, on the caller's frame
Aggregate(t) ==
    /\ threads[t].pc = "aggregate"
    /\ \E r \in {ResultOn(threads[t].call, df)}
                 \cup (IF WriteInProgress(t) THEN {Raised("IndexError")} ELSE {}) :
           threads' = [threads EXCEPT ![t].pc = "done", ![t].result = r]
    /\ UNCHANGED <<df, df0, call, ret, sortKind, botVars, loaderVars>>

\* df.copy() (lines 188, 227), df[df['code_dept'] == dept_code] (line 156)
CopyFrame(t) ==
    /\ threads[t].pc = "copy"
    /\ \E f \in {df} \cup (IF WriteInProgress(t) THEN {EnsureFaits(df), TornFrame} ELSE {}) :
           threads' = [threads EXCEPT ![t].pc = "local", ![t].frame = f]
    /\ UNCHANGED <<df, df0, call, ret, sortKind, botVars, loaderVars>>

\* the rest of the call, on the thread's own frame
WorkOnCopy(t) ==
    /\ threads[t].pc = "local"
    /\ threads' = [threads EXCEPT
           ![t].pc = "done",
           ![t].result = IF threads[t].frame = TornFrame THEN Raised("IndexError")
                         ELSE ResultOn(threads[t].call, threads[t].frame)]
    /\ UNCHANGED <<df, df0, call, ret, sortKind, botVars, loaderVars>>

-----------------------------------------------------------------------------
(* DataLoader._clean_crime_data                                            *)

\* column_mapping, applied by df.rename: a label outside it is kept.
column_mapping(label) ==
    CASE label = "Code département" -> "code_dept"
      [] label = "Département" -> "departement"
      [] label = "Code service" -> "code_service"
      [] label = "Service" -> "service"
      [] label = "Unité de compte" -> "unite"
      [] label = "Classe" -> "classe"
      [] label = "classe" -> "classe"
      [] label = "Index" -> "index"
      [] label = "Millésime" -> "annee"
      [] label = "annee" -> "annee"
      [] OTHER -> label

\* The texts of the model that read as a number, and the number.
NumeralValue == [s \in {"2020", "2021"} |-> IF s = "2020" THEN 2020 ELSE 2021]

\* pd.to_numeric(..., errors='ignore') on one cell: what cannot be parsed
\* is kept as it is.
to_numeric_keep_text(c) ==
    CASE c.kind = "num" -> c
      [] c.kind = "str" ->
           IF c.s \in DOMAIN NumeralValue THEN Num(NumeralValue[c.s]) ELSE c
      [] OTHER -> NaN

\* pd.to_numeric(..., errors='coerce') on one cell: a number is kept, a text
\* is parsed, and what cannot be parsed becomes the missing value.
to_numeric(c) ==
    CASE c.kind = "num" -> c
      [] c.kind = "str" ->
           IF c.s \in DOMAIN NumeralValue THEN Num(NumeralValue[c.s]) ELSE NaN
      [] OTHER -> NaN

\* The positions of the columns labelled with one of the labels.
Positions(d, labels) == {i \in DOMAIN d.columns : d.columns[i] \in labels}

\* df.dropna() with no subset: a row with any missing cell is dropped.
dropna_any_column(d, subset) ==
    [columns |-> d.columns,
     rows |-> SelectSeq(d.rows, LAMBDA r : \A i \in DOMAIN r : ~IsNA(r[i]))]

\* df.dropna(subset=...): a row with a missing cell in a column of the
\* subset is dropped.
dropna(d, subset) ==
    [columns |-> d.columns,
     rows |-> SelectSeq(d.rows,
                  LAMBDA r : \A i \in Positions(d, subset) : ~IsNA(r[i]))]

CriticalLabels == {"code_dept", "annee", "classe"}

\* src/utils/data.py 51-79.  With two columns labelled 'annee' after the
\* renaming, df['annee'] is a frame and pd.to_numeric raises TypeError.
CleanOf(d) ==
    LET renamed ==
            [columns |-> [i \in DOMAIN d.columns |-> column_mapping(d.columns[i])],
             rows |-> d.rows]
        years == Positions(renamed, {"annee"})
        numeric ==
            [columns |-> renamed.columns,
             rows |-> [i \in DOMAIN renamed.rows |->
                 [j \in DOMAIN renamed.columns |->
                     IF j \in years THEN to_numeric(renamed.rows[i][j])
                     ELSE renamed.rows[i][j]]]]
        critical_cols == {c \in CriticalLabels : HasCol(numeric, c)}
    IN IF Cardinality(years) > 1 THEN Raised("TypeError")
       ELSE IF critical_cols # {} THEN dropna(numeric, critical_cols)
       ELSE numeric

\* df = _self._clean_crime_data(df), line 48: the caller's name is rebound
\* to the table returned.  The normaliser is applied to a raw table and then
\* once more to its own output.
_clean_crime_data ==
    /\ call' = [op |-> "_clean_crime_data", arg |-> df, first |-> call = NoCall]
    /\ ret' = CleanOf(df)
    /\ df' = IF IsRaised(CleanOf(df)) THEN df ELSE CleanOf(df)
    /\ UNCHANGED <<df0, sortKind, threads, botVars, loaderVars>>

-----------------------------------------------------------------------------
(* chatbot.get_data_summary: one line of text about a table, made of up to *)
(* four fragments.                                                         *)

\* The nearest integer, ties to even.
RoundInt(c) ==
    LET q == c.n \div c.d            \* floor, the denominator is positive
        r == c.n - q * c.d
    IN IF 2 * r < c.d THEN q
       ELSE IF 2 * r > c.d THEN q + 1
       ELSE IF q % 2 = 0 THEN q ELSE q + 1

\* format(x, spec) for spec '.0f' and ',.0f': the digits of the nearest
\* integer (grouped by thousands under ','), 'nan' or 'inf' for those.
format(c, spec) ==
    IF c.kind = "num" THEN [text |-> "digits", value |-> RoundInt(c), spec |-> spec]
    ELSE [text |-> c.kind]

\* Series.unique(): the distinct values, the missing one included.
unique(s) == {s[i] : i \in DOMAIN s}

\* Series.nunique(): the number of distinct values, the missing one excluded.
nunique(s) == Cardinality({c \in unique(s) : ~IsNA(c)})

\* ndarray.min() and ndarray.max(): a missing value makes the result missing.
ArrayMin(S) ==
    IF \E c \in S : IsNA(c) THEN NaN
    ELSE CHOOSE c \in S : \A o \in S : o.n * c.d >= c.n * o.d

ArrayMax(S) ==
    IF \E c \in S : IsNA(c) THEN NaN
    ELSE CHOOSE c \in S : \A o \in S : c.n * o.d >= o.n * c.d

\* [col for col in df.columns if col.isdigit()]
digit_cols(d) == {i \in DOMAIN d.columns : IsDigitLabel(d.columns[i])}

\* df[month_cols].sum().sum(): the sum of the sums of the columns.
SumOfColumns(d, I) ==
    SumCells([i \in DOMAIN d.rows |-> SumOver(d.rows[i], I)])

PeriodFragment(d) ==
    LET years == unique(ColumnOf(d, d.rows, "annee"))
    IN [label |-> "Période",
        from |-> format(ArrayMin(years), ".0f"),
        to |-> format(ArrayMax(years), ".0f")]

DeptsFragment(d) ==
    [label |-> "Départements", n |-> nunique(ColumnOf(d, d.rows, "code_dept"))]

TotalFragment(total) ==
    [label |-> "Total des faits", total |-> format(total, ",.0f")]

TypesFragment(d) ==
    [label |-> "Types de crimes", n |-> nunique(ColumnOf(d, d.rows, "classe"))]

\* sep.join(parts)
join(sep, parts) == [sep |-> sep, parts |-> parts]

\* The value returned, or the error raised: min() of the years of a table
\* without rows is a reduction of a zero-size array, a ValueError.
SummaryOf(d) ==
    IF HasCol(d, "annee") /\ d.rows = <<>> THEN Raised("ValueError")
    ELSE join(" | ",
            (IF HasCol(d, "annee") THEN <<PeriodFragment(d)>> ELSE <<>>)
         \o (IF HasCol(d, "code_dept") THEN <<DeptsFragment(d)>> ELSE <<>>)
         \o (IF HasCol(d, "faits")
                THEN <<TotalFragment(SumCells(ColumnOf(d, d.rows, "faits")))>>
             ELSE IF digit_cols(d) # {}
                THEN <<TotalFragment(SumOfColumns(d, digit_cols(d)))>>
             ELSE <<>>)
         \o (IF HasCol(d, "classe") THEN <<TypesFragment(d)>> ELSE <<>>))

get_data_summary ==
    /\ call' = [op |-> "get_data_summary", df |-> df]
    /\ ret' = SummaryOf(df)
    /\ UNCHANGED <<df, df0, sortKind, threads, botVars, loaderVars>>

-----------------------------------------------------------------------------
(* chatbot.CrimeAnalysisBot.  A model name is a text cell or None; a text  *)
(* returned to the caller is an answer of a model or one of the static     *)
(* texts.  completion() is a call over the network: whether it returns or  *)
(* raises is not in the hands of the program, so each attempt is one step. *)

Prompts == {"Quelle est la tendance ?", "Augmentation ou diminution ?", "Bonjour"}

\* key in prompt.lower(), on the prompts of the model
KeyIn(key, prompt) ==
    <<key, prompt>> \in {<<"tendance", "Quelle est la tendance ?">>,
                         <<"augmentation", "Augmentation ou diminution ?">>,
                         <<"diminution", "Augmentation ou diminution ?">>}

\* the keys of the dict of static texts, in the order of the dict
responses == <<"tendance", "comparaison", "augmentation", "diminution">>

StaticText(key) == [text |-> "static", key |-> key]

\* The loop without the text returned after it: no key in the prompt, no
\* text.
_generate_fallback_response_no_default(prompt) ==
    IF \E i \in DOMAIN responses : KeyIn(responses[i], prompt)
    THEN StaticText(responses[
             CHOOSE i \in DOMAIN responses :
                 /\ KeyIn(responses[i], prompt)
                 /\ \A j \in 1..(i - 1) : ~KeyIn(responses[j], prompt)])
    ELSE None

\* The text of the first key found in the prompt, else the default text.
_generate_fallback_response(prompt) ==
    IF \E i \in DOMAIN responses : KeyIn(responses[i], prompt)
    THEN StaticText(responses[
             CHOOSE i \in DOMAIN responses :
                 /\ KeyIn(responses[i], prompt)
                 /\ \A j \in 1..(i - 1) : ~KeyIn(responses[j], prompt)])
    ELSE StaticText("default")

\* response.choices[0].message.content of a completion that returned
Answer(model, prompt) == [text |-> "answer", model |-> model, prompt |-> prompt]

\* model or self.default_model
ModelToUse(model) == IF Truthy(model) THEN model ELSE default_model

\* One activation of generate_response, stopped in completion().
Frame(prompt, model) ==
    [prompt |-> prompt, model |-> model, model_to_use |-> ModelToUse(model)]

\* Only the question is kept.
Exchange_user_only(prompt, answer) == <<[role |-> "user", content |-> prompt]>>

\* The two entries appended after a completion that returned.
Exchange(prompt, answer) ==
    <<[role |-> "user", content |-> prompt],
      [role |-> "assistant", content |-> answer]>>

\* No value yet: the call has not returned.
Pending == [kind |-> "pending"]

\* The caller's call, up to its return (LiteLLM missing) or to the first
\* completion().
generate_response(prompt, model) ==
    /\ stack = <<>>
    /\ Len(conversation_history) < 2 * MaxExchanges
    /\ call' = [op |-> "generate_response", prompt |-> prompt, model |-> model,
                history |-> conversation_history]
    /\ completions' = <<>>
    /\ IF ~LITELLM_AVAILABLE
       THEN /\ ret' = _generate_fallback_response(prompt)
            /\ stack' = <<>>
       ELSE /\ ret' = Pending
            /\ stack' = <<Frame(prompt, model)>>
    /\ UNCHANGED <<df, df0, sortKind, threads, loaderVars,
                   LITELLM_AVAILABLE, default_model, fallback_model,
                   conversation_history>>

\* completion() returns: the exchange is recorded and the answer goes back
\* through every frame to the caller.
completion_returns ==
    /\ stack # <<>>
    /\ LET f == stack[Len(stack)]
           answer == Answer(f.model_to_use, f.prompt)
       IN /\ completions' = Append(completions, [model |-> f.model_to_use, ok |-> TRUE])
          /\ conversation_history' = conversation_history \o Exchange(f.prompt, answer)
          /\ ret' = answer
          /\ stack' = <<>>
    /\ UNCHANGED <<df, df0, call, sortKind, threads, loaderVars,
                   LITELLM_AVAILABLE, default_model, fallback_model>>

\* completion() raises.  With another model than the fallback in use the
\* frame calls generate_response(prompt, self.fallback_model, context); a
\* call nested deeper than the interpreter allows raises RecursionError,
\* which the bare except around it answers with the static text.  That
\* text, like any value returned, goes back through every frame.
completion_raises ==
    /\ stack # <<>>
    /\ LET f == stack[Len(stack)]
       IN /\ completions' = Append(completions, [model |-> f.model_to_use, ok |-> FALSE])
          /\ IF f.model_to_use # fallback_model /\ Len(stack) < RecursionLimit
             THEN /\ stack' = Append(stack, Frame(f.prompt, fallback_model))
                  /\ UNCHANGED ret
             ELSE /\ stack' = <<>>
                  /\ ret' = _generate_fallback_response(f.prompt)
    /\ UNCHANGED <<df, df0, call, sortKind, threads, loaderVars,
                   LITELLM_AVAILABLE, default_model, fallback_model,
                   conversation_history>>

clear_history ==
    /\ stack = <<>>
    /\ call' = [op |-> "clear_history"]
    /\ ret' = None
    /\ conversation_history' = <<>>
    /\ UNCHANGED <<df, df0, sortKind, threads, loaderVars,
                   LITELLM_AVAILABLE, default_model, fallback_model,
                   stack, completions>>

-----------------------------------------------------------------------------
(* Input tables.  Each family varies the columns one group of operations   *)
(* reads and holds the other columns fixed.                                *)

Depts == {<<Str("59"), Str("Nord")>>, <<Str("75"), Str("Paris")>>}
DeptsOrMissing == Depts \cup {<<Str("75"), NaN>>, <<NaN, Str("Nord")>>}
Years == {Num(2020), Num(2021)}
YearsOrMissing == Years \cup {NaN}
Classes == {Str("A"), Str("B"), Str("C")}
Counts == {Num(c) : c \in 0..MaxCount}
MonthCounts == {Num(0), Num(1)}

CanonicalCols == <<"code_dept", "departement", "annee", "classe", "faits">>
NoCountCols == <<"code_dept", "departement", "annee", "classe">>
MonthCols == <<"code_dept", "departement", "annee", "classe", "1", "Mois2">>

SeqsUpTo(S, n) == UNION {[1..k -> S] : k \in 0..n}

TablesOf(cols, R) == {[columns |-> cols, rows |-> rs] : rs \in SeqsUpTo(R, MaxRows)}

\* territories (some with a missing code or name), a small or a large count
TablesTerr ==
    TablesOf(CanonicalCols,
        {<<t[1], t[2], Num(2020), Str("A"), f>> :
            t \in DeptsOrMissing, f \in {Num(1), Num(MaxCount)}})

\* years (some missing) and counts
TablesYear ==
    TablesOf(CanonicalCols,
        {<<Str("75"), Str("Paris"), y, Str("A"), f>> : y \in YearsOrMissing, f \in Counts})

\* categories and counts
TablesClass ==
    TablesOf(CanonicalCols,
        {<<Str("75"), Str("Paris"), Num(2020), c, f>> : c \in Classes, f \in Counts})

\* rows with and without a category, no incident or one
TablesClassMissing ==
    TablesOf(CanonicalCols,
        {<<Str("75"), Str("Paris"), Num(2020), c, f>> :
            c \in {Str("A"), NaN}, f \in {Num(0), Num(1)}})

\* territories, years and two categories, one incident per row
TablesMixed ==
    TablesOf(CanonicalCols,
        {<<t[1], t[2], y, c, Num(1)>> :
            t \in Depts, y \in Years, c \in {Str("A"), Str("B")}})

\* no count column at all
TablesNoCount ==
    TablesOf(NoCountCols,
        {<<t[1], t[2], y, Str("A")>> : t \in Depts, y \in Years})

\* no count column, two period columns
TablesMonths ==
    TablesOf(MonthCols,
        {<<Str("75"), Str("Paris"), Num(2020), Str("A"), m1, m2>> :
            m1 \in MonthCounts, m2 \in MonthCounts})

\* a count column and a period column side by side
CountedMonthCols == <<"code_dept", "departement", "annee", "classe", "faits", "1">>

TablesCountedMonths ==
    TablesOf(CountedMonthCols,
        {<<t[1], t[2], Num(2020), Str("A"), f, Num(1)>> :
            t \in Depts, f \in {Num(0), Num(MaxCount)}})

\* The arguments the calls are tried with.
DeptArgs == {None, Str(""), Str("59")}
YearArgs == {None, Num(0), Num(2020)}
NArgs == 0..MaxN

\* The bot as its constructor leaves it with no environment variable set,
\* and no call in progress.
NoBot ==
    /\ LITELLM_AVAILABLE = TRUE
    /\ default_model = Str("gpt-5-nano")
    /\ fallback_model = Str("claude-3-haiku-20240307")
    /\ conversation_history = <<>>
    /\ stack = <<>>
    /\ completions = <<>>

\* No cache file on disk and nothing memoised.
NoLoader ==
    /\ cache_file = None
    /\ memo = <<>>

InitOn(T, K) ==
    /\ df \in T
    /\ df0 = df
    /\ call = NoCall
    /\ ret = NaN
    /\ sortKind \in K
    /\ threads = [t \in Threads |-> Idle]
    /\ NoBot
    /\ NoLoader

-----------------------------------------------------------------------------
(* The four aggregations, called in any order on one table.                *)

Init == InitOn(TablesNoCount \cup TablesMonths, SortKinds)

Next ==
    \/ get_department_stats
    \/ \E d \in DeptArgs : get_temporal_evolution(d)
    \/ \E d \in DeptArgs, y \in YearArgs : get_crime_types_distribution(d, y)
    \/ \E n \in NArgs, y \in YearArgs : get_top_departments(n, y)

Spec == Init /\ [][Next]_vars

(* One aggregation, called once on a table the caller has just built.      *)

InitDept ==
    InitOn(TablesTerr \cup TablesYear \cup TablesNoCount \cup TablesMonths, SortKinds)
NextDept == call = NoCall /\ get_department_stats
SpecDept == InitDept /\ [][NextDept]_vars

InitEvol == InitOn(TablesYear \cup TablesMixed \cup TablesMonths, SortKinds)
NextEvol == call = NoCall /\ \E d \in DeptArgs : get_temporal_evolution(d)
SpecEvol == InitEvol /\ [][NextEvol]_vars

InitDist ==
    InitOn(TablesClass \cup TablesClassMissing \cup TablesMixed \cup TablesMonths, SortKinds)
NextDist ==
    call = NoCall /\ \E d \in DeptArgs, y \in YearArgs : get_crime_types_distribution(d, y)
SpecDist == InitDist /\ [][NextDist]_vars

InitTop == InitOn(TablesTerr \cup TablesMixed \cup TablesNoCount, SortKinds)
NextTop == call = NoCall /\ \E n \in NArgs, y \in YearArgs : get_top_departments(n, y)
SpecTop == InitTop /\ [][NextTop]_vars

(* Any one of the four aggregations, called once on a table with a count   *)
(* column, with period columns, or with neither.                           *)

InitOnce ==
    InitOn(TablesNoCount \cup TablesMonths \cup TablesCountedMonths, SortKinds)
NextOnce == call = NoCall /\ Next
SpecOnce == InitOnce /\ [][NextOnce]_vars

(* Two threads, each making one call on the same table.                    *)

TablesShared ==
    {[columns |-> NoCountCols, rows |-> rs] :
        rs \in SeqsUpTo({<<t[1], t[2], Num(2020), Str("A")>> : t \in Depts}, MaxSharedRows)}
    \cup
    {[columns |-> MonthCols, rows |-> rs] :
        rs \in SeqsUpTo({<<Str("75"), Str("Paris"), Num(2020), Str("A"), Num(1), m>> :
                            m \in MonthCounts}, MaxSharedRows)}

Calls ==
    {[op |-> "get_department_stats"]}
    \cup {[op |-> "get_temporal_evolution", dept_code |-> d] : d \in DeptArgs}
    \cup {[op |-> "get_crime_types_distribution", dept_code |-> d, year |-> y] :
              d \in DeptArgs, y \in YearArgs}
    \cup {[op |-> "get_top_departments", n |-> n, year |-> y] : n \in NArgs, y \in YearArgs}

InitShared == InitOn(TablesShared, {"stable"})

NextShared ==
    \E t \in Threads :
        \/ \E c \in Calls : Enter(t, c)
        \/ TestFaits(t)
        \/ BeginStore(t)
        \/ EndStore(t)
        \/ Aggregate(t)
        \/ CopyFrame(t)
        \/ WorkOnCopy(t)

SpecShared == InitShared /\ [][NextShared]_vars

(* calculate_crime_rate on small arguments and on those of the example.   *)

NoTable == [columns |-> <<>>, rows |-> <<>>]

CrimeArgs == (0..MaxCrimes) \cup {2000}
PopulationArgs == (0..MaxPopulation) \cup {1000000}

InitRate == InitOn({NoTable}, {"stable"})
NextRate == \E t \in CrimeArgs, p \in PopulationArgs : calculate_crime_rate(t, p)
SpecRate == InitRate /\ [][NextRate]_vars

(* The normaliser on raw tables.                                           *)

SourceCols == <<"Code département", "Département", "Millésime", "Classe">>

RawTablesOf(cols, R) ==
    {[columns |-> cols, rows |-> rs] : rs \in SeqsUpTo(R, MaxRawRows)}

\* canonical labels; cells missing, years as numbers, as text, unreadable
RawCanonical ==
    RawTablesOf(CanonicalCols,
        {<<c, d, y, k, Num(1)>> :
            c \in {Str("75"), NaN}, d \in {Str("Paris"), NaN},
            y \in {Num(2020), Str("2021"), Str("n.d."), NaN},
            k \in {Str("A"), NaN}})

\* the labels of the source file
RawSource ==
    RawTablesOf(SourceCols,
        {<<c, Str("Paris"), y, k>> :
            c \in {Str("75"), NaN}, y \in {Num(2020), Str("n.d.")},
            k \in {Str("A"), NaN}})

InitClean == InitOn(RawCanonical \cup RawSource, {"stable"})
NextClean == (IF call = NoCall THEN TRUE ELSE call.first) /\ _clean_crime_data
SpecClean == InitClean /\ [][NextClean]_vars

\* two source names of the year side by side
AliasCols == <<"Millésime", "annee", "Classe">>

RawAliases ==
    RawTablesOf(AliasCols,
        {<<y, Num(2021), k>> : y \in {Num(2020), Str("n.d.")}, k \in {Str("A"), NaN}})

\* no territory code and no category
PartialCols == <<"Département", "Millésime">>

RawPartial ==
    RawTablesOf(PartialCols,
        {<<d, y>> : d \in {Str("Paris"), NaN}, y \in {Num(2020), Str("n.d.")}})

(* The normaliser, called once on a raw table with any of the columns.     *)

InitCleanAny == InitOn(RawSource \cup RawAliases \cup RawPartial, {"stable"})
NextCleanAny == call = NoCall /\ _clean_crime_data
SpecCleanAny == InitCleanAny /\ [][NextCleanAny]_vars

\* any of the columns the summary reads, in the order of the source
SummaryLabels == <<"annee", "code_dept", "faits", "classe", "1">>

SummaryValues(c) ==
    CASE c = "annee" -> Years
      [] c = "code_dept" -> {Str("59"), Str("75")}
      [] c = "faits" -> {Num(MaxCount)}
      [] c = "classe" -> {Str("A"), Str("B")}
      [] c = "1" -> {Num(1)}

\* the labels at the positions I, in order
LabelsAt(I) ==
    [k \in 1..Cardinality(I) |->
        SummaryLabels[CHOOSE i \in I : Cardinality({j \in I : j < i}) = k - 1]]

\* the rows over the columns cols: one value of its column in each cell
RECURSIVE RowsOver(_)
RowsOver(cols) ==
    IF cols = <<>> THEN {<<>>}
    ELSE {Append(r, v) : r \in RowsOver(SubSeq(cols, 1, Len(cols) - 1)),
                         v \in SummaryValues(cols[Len(cols)])}

TablesAnyColumns ==
    UNION {{[columns |-> LabelsAt(I), rows |-> rs] :
                rs \in SeqsUpTo(RowsOver(LabelsAt(I)), MaxSummaryRows)} :
           I \in SUBSET DOMAIN SummaryLabels}

(* The summary, called once on a table.                                    *)

InitSummary ==
    InitOn(TablesAnyColumns \cup TablesTerr \cup TablesYear
               \cup TablesNoCount \cup TablesMonths, {"stable"})
NextSummary == call = NoCall /\ get_data_summary
SpecSummary == InitSummary /\ [][NextSummary]_vars

(* One bot and one caller: any sequence of generate_response and           *)
(* clear_history.  The configuration is what the environment variables     *)
(* DEFAULT_MODEL and FALLBACK_MODEL and the installation give.             *)

ModelArgs == {None, Str("gpt-5-nano"), Str("claude-3-haiku-20240307")}
FallbackModels == {Str("claude-3-haiku-20240307"), Str("gpt-5-nano"), Str("")}

InitBot ==
    /\ df = NoTable
    /\ df0 = df
    /\ call = NoCall
    /\ ret = NaN
    /\ sortKind = "stable"
    /\ threads = [t \in Threads |-> Idle]
    /\ NoLoader
    /\ LITELLM_AVAILABLE \in BOOLEAN
    /\ default_model = Str("gpt-5-nano")
    /\ fallback_model \in FallbackModels
    /\ conversation_history = <<>>
    /\ stack = <<>>
    /\ completions = <<>>

NextBot ==
    \/ \E prompt \in Prompts, model \in ModelArgs : generate_response(prompt, model)
    \/ completion_returns
    \/ completion_raises
    \/ clear_history

SpecBot == InitBot /\ [][NextBot]_vars

-----------------------------------------------------------------------------
(* DataLoader.load_crime_data, with the st.cache_data around it.  A CSV    *)
(* text is a header and lines of fields; the remote file is such a text.   *)

\* The remote file: MaxSourceRows lines, every third one without category.
SourceText ==
    [header |-> SourceCols,
     lines |-> [i \in 1..MaxSourceRows |->
         <<IF i % 2 = 1 THEN "2A" ELSE "2B",
           IF i % 2 = 1 THEN "Corse-du-Sud" ELSE "Haute-Corse",
           IF i <= 2 THEN "2020" ELSE "2021",
           IF i % 3 = 0 THEN "" ELSE "A">>]]

\* pd.read_csv(text, nrows=nrows): the first nrows lines (all of them for
\* None); an empty field is missing; a column whose fields all read as
\* numbers holds numbers, any other column holds its fields as text.
read_csv(text, nrows) ==
    LET n == IF nrows = None THEN Len(text.lines)
             ELSE IF nrows.n < Len(text.lines) THEN nrows.n ELSE Len(text.lines)
        numeric(j) ==
            \A i \in 1..n : text.lines[i][j] \in DOMAIN NumeralValue \cup {""}
    IN [columns |-> text.header,
        rows |-> [i \in 1..n |->
            [j \in DOMAIN text.header |->
                LET s == text.lines[i][j]
                IN IF s = "" THEN NaN
                   ELSE IF numeric(j) THEN Num(NumeralValue[s])
                   ELSE Str(s)]]]

\* df.to_csv(file, index=False): a missing cell is an empty field, a number
\* its digits, a text itself.
to_csv(d) ==
    [header |-> d.columns,
     lines |-> [i \in DOMAIN d.rows |->
         [j \in DOMAIN d.columns |->
             LET c == d.rows[i][j]
             IN IF IsNA(c) THEN ""
                ELSE IF c.kind = "str" THEN c.s
                ELSE CHOOSE s \in DOMAIN NumeralValue : NumeralValue[s] = c.n]]]

\* The demonstration table: one row per year, department and category of
\* the source's lists (here the first MaxDemoRows of them), each with a
\* random count from 100 to 4999, given by faits.
DemoCounts == {Num(100), Num(4999)}

_create_demo_data(faits) ==
    [columns |-> CanonicalCols,
     rows |-> [i \in 1..MaxDemoRows |->
         <<Str(IF i % 2 = 1 THEN "75" ELSE "13"),
           Str(IF i % 2 = 1 THEN "Paris" ELSE "Bouches-du-Rhône"),
           Num(2019 + ((i - 1) \div 2)),
           Str("Cambriolages"),
           faits[i]>>]]

SampleSizes == {None} \cup {Num(k) : k \in 1..MaxSample}

\* The function as decorated.  A call with an argument seen before returns
\* the stored result and runs nothing.  Otherwise the body runs: the cache
\* file when it exists, else the download (network "up": the table read is
\* also written to the cache file; "down": the demonstration table), then
\* the normaliser; the result is stored unless the body raised.
load_crime_data(sample_size, network, faits) ==
    LET hit == sample_size \in DOMAIN memo
        cached == cache_file # None
        raw == IF cached THEN read_csv(cache_file, sample_size)
               ELSE IF network = "up" THEN read_csv(SourceText, sample_size)
               ELSE _create_demo_data(faits)
        result == CleanOf(raw)
    IN /\ call' = [op |-> "load_crime_data", sample_size |-> sample_size,
                   cached |-> cached, network |-> network,
                   download |-> IF hit \/ cached THEN "none"
                                ELSE IF network = "up" THEN "ok" ELSE "failed"]
       /\ ret' = IF hit THEN memo[sample_size] ELSE result
       /\ cache_file' = IF ~hit /\ ~cached /\ network = "up" THEN to_csv(raw)
                        ELSE cache_file
       /\ memo' = IF hit \/ IsRaised(result) THEN memo
                  ELSE [k \in DOMAIN memo \cup {sample_size} |->
                           IF k = sample_size THEN result ELSE memo[k]]
       /\ UNCHANGED <<df, df0, sortKind, threads, botVars>>

\* The process is started again (or the cache of st.cache_data is cleared):
\* nothing is memoised any more, the files are as they were.
restart ==
    /\ memo # <<>>
    /\ memo' = <<>>
    /\ UNCHANGED <<df, df0, call, ret, sortKind, threads, botVars, cache_file>>

InitLoad ==
    /\ df = NoTable
    /\ df0 = df
    /\ call = NoCall
    /\ ret = NaN
    /\ sortKind = "stable"
    /\ threads = [t \in Threads |-> Idle]
    /\ NoBot
    /\ NoLoader

NextLoad ==
    \/ \E sample_size \in SampleSizes, network \in {"up", "down"},
          faits \in [1..MaxDemoRows -> DemoCounts] :
              load_crime_data(sample_size, network, faits)
    \/ restart

SpecLoad == InitLoad /\ [][NextLoad]_vars

-----------------------------------------------------------------------------
(* What the claims read.                                                   *)

RetCol(c) == ColumnOf(ret, ret.rows, c)

\* The per-row counts of the table the caller built: its 'faits' column, else
\* the row sums of its period columns, else 1.
ResolvedCounts(d) ==
    LET w == EnsureFaits(d) IN ColumnOf(w, w.rows, "faits")

\* The count of one row of d by the rule of the specification: the cell of a
\* 'faits' column; else the sum over the row of the columns whose label is
\* purely numeric or contains 'mois'; else 1.
PeriodCols(d) ==
    {j \in DOMAIN d.columns : IsDigitLabel(d.columns[j]) \/ HasMoisInLabel(d.columns[j])}

CountOfRow(d, r) ==
    IF HasCol(d, "faits") THEN r[ColIdx(d, "faits")]
    ELSE IF PeriodCols(d) # {} THEN SumOver(r, PeriodCols(d))
    ELSE Num(1)

\* The counts of the rows rs of d, added up (a missing count adds nothing).
RECURSIVE SumOfCounts(_, _)
SumOfCounts(d, rs) ==
    IF rs = <<>> THEN Num(0)
    ELSE LET c == CountOfRow(d, Head(rs))
         IN IF IsNA(c) THEN SumOfCounts(d, Tail(rs))
            ELSE FAdd(c, SumOfCounts(d, Tail(rs)))

Min(a, b) == IF a < b THEN a ELSE b

IsPrefix(s, t) == Len(s) <= Len(t) /\ \A i \in DOMAIN s : s[i] = t[i]

\* a >= b, for numbers
NumGeq(a, b) == a.n * b.d >= b.n * a.d

-----------------------------------------------------------------------------
(* C1.  Each aggregation leaves the caller's table as it was: the same     *)
(* columns and the same rows after the call as before it, also when the    *)
(* table has no 'faits' column.                                            *)
C1_InputTableUnchanged == df = df0

(* C2.  The total_faits of get_department_stats(T) add up to the sum of    *)
(* the resolved counts of all rows of T, rows with a missing department    *)
(* name or code included.                                                  *)
C2_SumConserved ==
    call.op = "get_department_stats" =>
        SumCells(RetCol("total_faits")) = SumCells(ResolvedCounts(df0))

(* C3.  In get_temporal_evolution, a year whose previous year has a total  *)
(* of zero has a missing evolution_pct, never an infinite one.             *)
C3_ZeroPreviousGivesMissing ==
    call.op = "get_temporal_evolution" =>
        \A i \in 2..Len(ret.rows) :
            RetCol("total_faits")[i - 1] = Num(0) => IsNA(RetCol("evolution_pct")[i])

(* C4.  In the result of get_temporal_evolution the first row's            *)
(* evolution_pct is missing; every later row whose previous row has a      *)
(* non-zero total has evolution_pct * previous = (current - previous) *    *)
(* 100, the previous row being the previous year present in the data; a    *)
(* table with a single year gives exactly one row, its evolution_pct       *)
(* missing.                                                                *)
YearsPresent(d) ==
    {r[ColIdx(d, "annee")] : r \in {d.rows[i] : i \in DOMAIN d.rows}} \ {NaN}

C4_EvolutionFormula ==
    call.op = "get_temporal_evolution" =>
        LET total == RetCol("total_faits")
            pct == RetCol("evolution_pct")
            annee == RetCol("annee")
        IN /\ Len(ret.rows) >= 1 => IsNA(pct[1])
           /\ \A i \in 2..Len(ret.rows) :
                 /\ CellLess(annee[i - 1], annee[i])
                 /\ call.dept_code = None =>
                        ~\E y \in YearsPresent(df0) :
                            CellLess(annee[i - 1], y) /\ CellLess(y, annee[i])
                 /\ total[i - 1] # Num(0) =>
                        /\ pct[i].kind = "num"
                        /\ pct[i].n * total[i - 1].n
                             = (total[i].n - total[i - 1].n) * 100 * pct[i].d
           /\ (call.dept_code = None /\ Cardinality(YearsPresent(df0)) = 1) =>
                 Len(ret.rows) = 1 /\ IsNA(pct[1])

\* two years, the total going from 2 to 1: evolution_pct is -50
C4_Witness ==
    /\ call.op = "get_temporal_evolution"
    /\ Len(ret.rows) = 2
    /\ RetCol("total_faits") = <<Num(2), Num(1)>>
    /\ RetCol("evolution_pct") = <<NaN, Num(-50)>>

(* C5.  For a non-empty table T the percentages of                         *)
(* get_crime_types_distribution(T) add up to 100 within 0.005 per          *)
(* category, also when every count of T is zero.                           *)
Unfiltered == call.dept_code = None /\ call.year = None

\* | sum of the percentages - 100 | <= 0.005 * number of categories
NearHundred(pcts) ==
    LET t == SumCells(pcts)
    IN /\ t.kind = "num"
       /\ Abs(1000 * t.n - 100000 * t.d) <= 5 * Len(pcts) * t.d

C5_PercentagesSumTo100 ==
    (call.op = "get_crime_types_distribution" /\ Unfiltered /\ df0.rows # <<>>) =>
        NearHundred(RetCol("pourcentage"))

(* C5, amended.  When the counts of the rows of T that have a category add *)
(* up to more than zero, the percentages add up to 100 within 0.005 per    *)
(* category; when they add up to zero, every percentage is missing.        *)
CategorisedCounts(d) ==
    LET w == EnsureFaits(d)
    IN ColumnOf(w, SelectSeq(w.rows, LAMBDA r : ~IsNA(r[ColIdx(w, "classe")])), "faits")

C5_PercentagesSumTo100_PositiveTotal ==
    (call.op = "get_crime_types_distribution" /\ Unfiltered /\ df0.rows # <<>>) =>
        IF SumCells(CategorisedCounts(df0)) # Num(0)
        THEN NearHundred(RetCol("pourcentage"))
        ELSE \A i \in DOMAIN ret.rows : IsNA(RetCol("pourcentage")[i])

\* three categories of one incident each: 33.33 three times, 99.99 in all
C5_Witness ==
    /\ call.op = "get_crime_types_distribution" /\ Unfiltered
    /\ Len(ret.rows) = 3
    /\ RetCol("pourcentage") = <<Rat(3333, 100), Rat(3333, 100), Rat(3333, 100)>>
    /\ SumCells(RetCol("pourcentage")) # Num(100)

(* C6.  For n smaller than the number of territories of T, the rows of     *)
(* get_top_departments(T, n) are, in order, the first n rows of            *)
(* get_top_departments(T, n + 1), also when territories have equal totals. *)
TopRows(n) == TopOf(EnsureFaits(TopFiltered(df0, call.year)), n, sortKind).rows

\* The (code_dept, departement) groups of the rows the call keeps: a row
\* with a missing code or name is in no group; the year filter is in effect
\* when the year given is true in Python's sense.
GroupsLeft ==
    LET w == TopFiltered(df0, call.year)
    IN {k \in {KeyOf(w, w.rows[i], DeptKey) : i \in DOMAIN w.rows} :
           ~IsNA(k[1]) /\ ~IsNA(k[2])}

C6_TopNIsPrefixOfTopNPlus1 ==
    (call.op = "get_top_departments" /\ call.n < Cardinality(GroupsLeft)) =>
        /\ Len(ret.rows) = call.n
        /\ IsPrefix(ret.rows, TopRows(call.n + 1))
        /\ Len(TopRows(call.n + 1)) = call.n + 1

\* two territories with equal totals, the first one asked for
C6_Witness ==
    /\ call.op = "get_top_departments" /\ call.n = 1 /\ call.year = None
    /\ Cardinality(GroupsLeft) = 2
    /\ Len(ret.rows) = 1
    /\ LET two == TopRows(2) IN two[1][3] = two[2][3]

(* C7.  get_top_departments(T, n, year) returns min(n, G) rows, G the      *)
(* number of (code_dept, departement) groups among the rows left by the    *)
(* year filter (all rows when no year is given, the rows of that year when *)
(* one is); the rows are in non-increasing order of total_faits and no     *)
(* group left out has a larger total than a returned one.                  *)
RowsOfYear(d, year) ==
    SelectSeq(d.rows, LAMBDA r : year # None => r[ColIdx(d, "annee")] = year)

GroupsOfYear ==
    LET rs == RowsOfYear(df0, call.year)
    IN {k \in {KeyOf(df0, rs[i], DeptKey) : i \in DOMAIN rs} : ~IsNA(k[1]) /\ ~IsNA(k[2])}

GroupTotal(k) ==
    SumOfCounts(df0,
        SelectSeq(RowsOfYear(df0, call.year), LAMBDA r : KeyOf(df0, r, DeptKey) = k))

C7_TopNRowCountAndOrder ==
    call.op = "get_top_departments" =>
        LET total == RetCol("total_faits")
            returned == {<<ret.rows[i][1], ret.rows[i][2]>> : i \in DOMAIN ret.rows}
        IN /\ Len(ret.rows) = Min(call.n, Cardinality(GroupsOfYear))
           /\ ret.columns = <<"code_dept", "departement", "total_faits">>
           /\ returned \subseteq GroupsOfYear
           /\ Cardinality(returned) = Len(ret.rows)
           /\ \A i \in DOMAIN ret.rows :
                 total[i] = GroupTotal(<<ret.rows[i][1], ret.rows[i][2]>>)
           /\ \A i \in 2..Len(ret.rows) : NumGeq(total[i - 1], total[i])
           /\ \A k \in GroupsOfYear \ returned :
                 \A i \in DOMAIN ret.rows : NumGeq(total[i], GroupTotal(k))

(* C8.  calculate_crime_rate(x, 0) is 0 for every x >= 0: no error, no     *)
(* infinity, no not-a-number.                                              *)
C8_ZeroPopulationGivesZero ==
    (call.op = "calculate_crime_rate" /\ call.population = 0) => ret = Num(0)

C8_Witness ==
    /\ call.op = "calculate_crime_rate"
    /\ call.population = 0 /\ call.total_crimes = 2000
    /\ ret = Num(0)

(* C9.  For total_crimes >= 0 and population > 0 calculate_crime_rate      *)
(* returns the number r with r * population = total_crimes * 1000; it is   *)
(* 2 for (2000, 1000000); every non-negative input gives a number.         *)
C9_RatePerThousand ==
    call.op = "calculate_crime_rate" =>
        /\ ret.kind = "num"
        /\ call.population > 0 =>
               ret.n * call.population = call.total_crimes * 1000 * ret.d
        /\ (call.total_crimes = 2000 /\ call.population = 1000000) => ret = Num(2)

C9_Witness ==
    /\ call.op = "calculate_crime_rate"
    /\ call.total_crimes = 2000 /\ call.population = 1000000
    /\ ret = Num(2)

(* C10.  Normalising a table that already uses the canonical column names  *)
(* changes neither its column names nor its set of rows; applying the      *)
(* normaliser twice gives the same table as applying it once.              *)
RowSet(d) == {d.rows[i] : i \in DOMAIN d.rows}

UsesCanonicalNames(d) ==
    \A i \in DOMAIN d.columns : d.columns[i] = column_mapping(d.columns[i])

SameAsArgument ==
    /\ ~IsRaised(ret)
    /\ ret.columns = call.arg.columns
    /\ RowSet(ret) = RowSet(call.arg)

C10_CanonicalTableUnchanged ==
    call.op = "_clean_crime_data" =>
        /\ UsesCanonicalNames(call.arg) => SameAsArgument
        /\ ~call.first => ret = call.arg

(* C10, amended.  Normalising a table that uses the canonical column names *)
(* and has, in code_dept, annee and classe, no missing value and only      *)
(* numbers as years changes neither its column names nor its rows;         *)
(* applying the normaliser twice gives the same table as applying it once. *)
CriticalCellsPresent(d) ==
    \A i \in DOMAIN d.rows :
        /\ \A j \in Positions(d, CriticalLabels) : ~IsNA(d.rows[i][j])
        /\ \A j \in Positions(d, {"annee"}) : d.rows[i][j].kind = "num"

C10_CleanCanonicalTableUnchanged ==
    call.op = "_clean_crime_data" =>
        /\ (UsesCanonicalNames(call.arg) /\ CriticalCellsPresent(call.arg)) =>
               SameAsArgument /\ ret.rows = call.arg.rows
        /\ ~call.first => ret = call.arg

\* a second pass over a table whose first pass dropped a row, and which
\* keeps a row with a missing department name
C10_Witness ==
    /\ call.op = "_clean_crime_data" /\ ~call.first
    /\ UsesCanonicalNames(df0)
    /\ Len(df0.rows) = 2 /\ Len(call.arg.rows) = 1
    /\ \E j \in DOMAIN ret.rows[1] : IsNA(ret.rows[1][j])
    /\ ret = call.arg

(* C11.  Every row the normaliser returns has a value in code_dept, in     *)
(* annee and in classe, for each of these columns the source table has     *)
(* under one of its recognised names, and its year is a number; a row of   *)
(* the source whose year does not read as a number is not returned.        *)
CriticalSourceNames ==
    {"Code département", "code_dept", "Millésime", "annee", "Classe", "classe"}

YearSourceNames == {"Millésime", "annee"}

ReadsAsNumber(c) ==
    \/ c.kind = "num"
    \/ c.kind = "str" /\ c.s \in DOMAIN NumeralValue

\* the rows of d whose year, in every year column, reads as a number
RowsWithReadableYear(d) ==
    {i \in DOMAIN d.rows :
        \A j \in Positions(d, YearSourceNames) : ReadsAsNumber(d.rows[i][j])}

C11_CriticalCellsNeverMissing ==
    (call.op = "_clean_crime_data" /\ ~IsRaised(ret)) =>
        /\ Len(ret.columns) = Len(call.arg.columns)
        /\ \A j \in Positions(call.arg, CriticalSourceNames) :
               /\ ret.columns[j] \in CriticalLabels
               /\ \A i \in DOMAIN ret.rows : ~IsNA(ret.rows[i][j])
        /\ \A j \in Positions(call.arg, YearSourceNames) :
               \A i \in DOMAIN ret.rows : ret.rows[i][j].kind = "num"
        /\ Len(ret.rows) <= Cardinality(RowsWithReadableYear(call.arg))

\* a source file of two rows, the year of one unreadable: one row is left
C11_Witness ==
    /\ call.op = "_clean_crime_data" /\ call.first
    /\ call.arg.columns = SourceCols
    /\ Len(call.arg.rows) = 2 /\ Len(ret.rows) = 1
    /\ \E i \in DOMAIN call.arg.rows : call.arg.rows[i][3] = Str("n.d.")
    /\ ret.rows[1] = <<Str("75"), Str("Paris"), Num(2020), Str("A")>>

(* C12.  Normalising a raw table that has a column "Code département", no  *)
(* count column and no period column gives a table whose code_dept has a   *)
(* value in every row and which has a count column 'faits' holding 1 in    *)
(* every row.                                                              *)
C12_NormalisedTableHasUnitCount ==
    (/\ call.op = "_clean_crime_data" /\ call.first
     /\ HasCol(call.arg, "Code département")
     /\ ~HasCol(call.arg, "faits")
     /\ month_cols(call.arg) = {}) =>
        /\ ~IsRaised(ret)
        /\ HasCol(ret, "code_dept")
        /\ \A i \in DOMAIN ret.rows : ~IsNA(RetCol("code_dept")[i])
        /\ HasCol(ret, "faits")
        /\ \A i \in DOMAIN ret.rows : RetCol("faits")[i] = Num(1)

(* C13.  Each of the four aggregations resolves the count of a row by the  *)
(* same rule, inside the call: the cell of an existing 'faits' column, as  *)
(* it is; else the sum over the row of the columns whose label is purely   *)
(* numeric or contains 'mois'; else 1.                                     *)
\* d with the count of every row written out in a 'faits' column
WithCountsWrittenOut(d) ==
    IF HasCol(d, "faits") THEN d
    ELSE [columns |-> Append(d.columns, "faits"),
          rows |-> [i \in DOMAIN d.rows |-> Append(d.rows[i], CountOfRow(d, d.rows[i]))]]

\* the labels of df0 a result row is keyed by, and the position of its total
GroupedBy ==
    CASE call.op = "get_temporal_evolution" -> <<"annee">>
      [] call.op = "get_crime_types_distribution" -> <<"classe">>
      [] OTHER -> DeptKey

NoFilterGiven ==
    /\ "dept_code" \in DOMAIN call => call.dept_code = None
    /\ "year" \in DOMAIN call => call.year = None

C13_CountResolvedInsideEachOperation ==
    call # NoCall =>
        /\ ret = ResultOn(call, WithCountsWrittenOut(df0))
        /\ NoFilterGiven =>
               \A i \in DOMAIN ret.rows :
                   LET k == SubSeq(ret.rows[i], 1, Len(GroupedBy))
                   IN ret.rows[i][Len(GroupedBy) + 1]
                          = SumOfCounts(df0, GroupRows(df0, GroupedBy, k))

\* period columns summed: a row with 1 and 1, a row with 1 and 0
C13_Witness ==
    /\ call.op = "get_top_departments" /\ call.n = 1 /\ call.year = None
    /\ df0.columns = MonthCols
    /\ df0.rows = <<<<Str("75"), Str("Paris"), Num(2020), Str("A"), Num(1), Num(1)>>,
                    <<Str("75"), Str("Paris"), Num(2020), Str("A"), Num(1), Num(0)>>>>
    /\ RetCol("total_faits") = <<Num(3)>>

(* C14.  The result of get_department_stats has one row per (code_dept,    *)
(* departement) group; its total_faits is the sum of the counts of the     *)
(* rows of the group and its nb_enregistrements is the number of rows of   *)
(* the group, whatever their years, a missing year included.               *)
DeptGroups(d) ==
    {k \in {KeyOf(d, d.rows[i], DeptKey) : i \in DOMAIN d.rows} :
        ~IsNA(k[1]) /\ ~IsNA(k[2])}

C14_OneRowPerGroupWithRowCount ==
    call.op = "get_department_stats" =>
        /\ {<<ret.rows[i][1], ret.rows[i][2]>> : i \in DOMAIN ret.rows} = DeptGroups(df0)
        /\ Len(ret.rows) = Cardinality(DeptGroups(df0))
        /\ \A i \in DOMAIN ret.rows :
               LET members == GroupRows(df0, DeptKey, <<ret.rows[i][1], ret.rows[i][2]>>)
               IN /\ RetCol("total_faits")[i] = SumOfCounts(df0, members)
                  /\ RetCol("nb_enregistrements")[i] = Num(Len(members))

(* C15.  The rows of get_department_stats are in non-increasing order of   *)
(* total_faits, and two groups with equal totals are in the order they had *)
(* before the sort, the order of their keys.                               *)
C15_SortedWithStableTies ==
    call.op = "get_department_stats" =>
        \A i \in DOMAIN ret.rows : \A j \in DOMAIN ret.rows :
            i < j =>
                /\ NumGeq(RetCol("total_faits")[i], RetCol("total_faits")[j])
                /\ RetCol("total_faits")[i] = RetCol("total_faits")[j] =>
                       KeyLess(<<ret.rows[i][1], ret.rows[i][2]>>,
                               <<ret.rows[j][1], ret.rows[j][2]>>)

(* C16.  get_temporal_evolution(T, dept_code) returns one row per year     *)
(* present (not missing) among the rows it considers, the years strictly   *)
(* ascending, each with the sum of the counts of the rows of that year;    *)
(* with a dept_code given, the rows considered are those of T with that    *)
(* code_dept, with none given (None) they are all the rows of T.           *)
RowsWhere(d, c, v) == SelectSeq(d.rows, LAMBDA r : r[ColIdx(d, c)] = v)

RowsOfTerritory(d, dept_code) ==
    IF dept_code = None THEN d.rows ELSE RowsWhere(d, "code_dept", dept_code)

C16_OneRowPerYearOfTheTerritory ==
    call.op = "get_temporal_evolution" =>
        LET considered == RowsOfTerritory(df0, call.dept_code)
            yearOf(r) == r[ColIdx(df0, "annee")]
            years == {yearOf(considered[i]) : i \in DOMAIN considered} \ {NaN}
        IN /\ Len(ret.rows) = Cardinality(years)
           /\ {RetCol("annee")[i] : i \in DOMAIN ret.rows} = years
           /\ \A i \in 2..Len(ret.rows) : CellLess(RetCol("annee")[i - 1], RetCol("annee")[i])
           /\ \A i \in DOMAIN ret.rows :
                  RetCol("total_faits")[i]
                      = SumOfCounts(df0,
                            SelectSeq(considered, LAMBDA r : yearOf(r) = RetCol("annee")[i]))

(* C17.  get_crime_types_distribution(T, dept_code, year) returns one row  *)
(* per category present among the rows of T that match every filter value  *)
(* given, whatever the territory code and whatever the year value given;   *)
(* total is the sum of the counts of these rows, the rows are in           *)
(* non-increasing order of total, and pourcentage is total divided by the  *)
(* sum of all totals, times 100, rounded to 2 decimals.                    *)
MatchingRows(d, dept_code, year) ==
    SelectSeq(d.rows, LAMBDA r :
        /\ dept_code # None => r[ColIdx(d, "code_dept")] = dept_code
        /\ year # None => r[ColIdx(d, "annee")] = year)

\* p is x rounded to two decimals: a number of hundredths, within 0.005 of x
IsRoundedTo2(p, x) ==
    /\ p.kind = "num" /\ x.kind = "num"
    /\ (100 * p.n) % p.d = 0
    /\ LET diff == FAdd(x, FMul(Num(-1), p)) IN 200 * Abs(diff.n) <= diff.d

C17_DistributionOfMatchingRows ==
    call.op = "get_crime_types_distribution" =>
        LET matching == MatchingRows(df0, call.dept_code, call.year)
            classOf(r) == r[ColIdx(df0, "classe")]
            categories == {classOf(matching[i]) : i \in DOMAIN matching} \ {NaN}
            total == RetCol("total")
            sum == SumCells(total)
        IN /\ Len(ret.rows) = Cardinality(categories)
           /\ {RetCol("type_crime")[i] : i \in DOMAIN ret.rows} = categories
           /\ \A i \in DOMAIN ret.rows :
                  total[i] = SumOfCounts(df0,
                      SelectSeq(matching, LAMBDA r : classOf(r) = RetCol("type_crime")[i]))
           /\ \A i \in 2..Len(ret.rows) : NumGeq(total[i - 1], total[i])
           /\ sum # Num(0) =>
                  \A i \in DOMAIN ret.rows :
                      IsRoundedTo2(RetCol("pourcentage")[i],
                                   FMul(FDiv(total[i], sum), Num(100)))

(* C18.  When the table is empty, or no row matches the territory code and *)
(* the year given, get_crime_types_distribution returns a table with no    *)
(* row and does not raise, with or without a 'faits' column in the table.  *)
C18_NoMatchingRowGivesNoRow ==
    (/\ call.op = "get_crime_types_distribution"
     /\ MatchingRows(df0, call.dept_code, call.year) = <<>>) =>
        /\ ~IsRaised(ret)
        /\ ret.columns = <<"type_crime", "total", "pourcentage">>
        /\ ret.rows = <<>>

(* C19.  When the totals of all categories add up to zero,                 *)
(* get_crime_types_distribution gives every category a missing pourcentage *)
(* and does not raise; nothing infinite and nothing that is not a number   *)
(* is put in total or pourcentage.                                         *)
C19_ZeroSumGivesMissingPercentages ==
    call.op = "get_crime_types_distribution" =>
        /\ ~IsRaised(ret)
        /\ SumCells(RetCol("total")) = Num(0) =>
               \A i \in DOMAIN ret.rows :
                   /\ RetCol("pourcentage")[i] = NaN
                   /\ RetCol("total")[i].kind = "num"

\* two categories, every count zero
C19_Witness ==
    /\ call.op = "get_crime_types_distribution" /\ Unfiltered
    /\ Len(df0.rows) = 3
    /\ RetCol("type_crime") = <<Str("A"), Str("B")>>
    /\ RetCol("total") = <<Num(0), Num(0)>>
    /\ RetCol("pourcentage") = <<NaN, NaN>>

(* C20.  Whatever calls of the four aggregations are made on one table, in *)
(* any order and overlapping in any way, every call returns what the same  *)
(* call returns when made alone on a fresh copy of the table as the caller *)
(* built it.                                                               *)
C20_EveryCallAsIfAlone ==
    \A t \in Threads :
        threads[t].pc = "done" => threads[t].result = ResultOn(threads[t].call, df0)

(* C21.  The normaliser returns a table for every raw table, whichever of  *)
(* the recognised columns it has, two source names of one column included; *)
(* a year that does not read as a number becomes missing, without an       *)
(* error; and no row is dropped on account of a critical column the table  *)
(* does not have: the rows returned are the rows whose cells in the        *)
(* critical columns present have a value (a readable one for the year).    *)
RowsKeptByNormaliser(d) ==
    {i \in DOMAIN d.rows :
        /\ \A j \in Positions(d, CriticalSourceNames) : ~IsNA(d.rows[i][j])
        /\ \A j \in Positions(d, YearSourceNames) : ReadsAsNumber(d.rows[i][j])}

C21_NormaliserNeverFails ==
    call.op = "_clean_crime_data" =>
        /\ ~IsRaised(ret)
        /\ Len(ret.rows) = Cardinality(RowsKeptByNormaliser(call.arg))

(* C22.  The total of get_data_summary is the sum of the count resolved as *)
(* the aggregations resolve it ('faits'; else the columns with a purely    *)
(* numeric label or 'mois' in it, added up; else 1 per row): for every     *)
(* table the summary has a total fragment, it reports the sum of the       *)
(* resolved counts of the rows, and that is the sum of the total_faits     *)
(* get_department_stats returns for the table.                             *)
TotalFragments(s) == {i \in DOMAIN s.parts : s.parts[i].label = "Total des faits"}

HasTerritoryColumns(d) == HasCol(d, "code_dept") /\ HasCol(d, "departement")

C22_SummaryTotalIsResolvedCount ==
    (call.op = "get_data_summary" /\ ~IsRaised(ret)) =>
        /\ TotalFragments(ret) # {}
        /\ \A i \in TotalFragments(ret) :
              /\ ret.parts[i].total = format(SumOfCounts(df, df.rows), ",.0f")
              /\ HasTerritoryColumns(df) =>
                    ret.parts[i].total =
                        format(SumCells(ColumnOf(DeptStatsOf(EnsureFaits(df), sortKind),
                                                 DeptStatsOf(EnsureFaits(df), sortKind).rows,
                                                 "total_faits")), ",.0f")

(* C23.  get_data_summary never raises, a table without rows included, and *)
(* returns the fragments period, territories, total, categories, in that   *)
(* order, joined by ' | ': each fragment is there exactly when its column  *)
(* is (the total: when the table has a 'faits' column or a column with a   *)
(* purely numeric label), and an absent column leaves nothing in its       *)
(* place.                                                                  *)
FragmentsExpected(d) ==
       (IF HasCol(d, "annee") THEN <<"Période">> ELSE <<>>)
    \o (IF HasCol(d, "code_dept") THEN <<"Départements">> ELSE <<>>)
    \o (IF HasCol(d, "faits") \/ \E j \in DOMAIN d.columns : IsDigitLabel(d.columns[j])
           THEN <<"Total des faits">> ELSE <<>>)
    \o (IF HasCol(d, "classe") THEN <<"Types de crimes">> ELSE <<>>)

C23_SummaryFragmentsInOrder ==
    call.op = "get_data_summary" =>
        /\ ~IsRaised(ret)
        /\ ret.sep = " | "
        /\ [i \in DOMAIN ret.parts |-> ret.parts[i].label] = FragmentsExpected(df)

(* C24.  A call of generate_response makes at most two completion          *)
(* attempts: the first with the model asked for (the default model when    *)
(* none is), a second one only after the first has failed and only with    *)
(* the fallback model; when that fails too, or when the model asked for is *)
(* the fallback model already, the static text is returned.               *)
Returned == call.op = "generate_response" /\ stack = <<>>

C24_AtMostTwoAttempts ==
    call.op = "generate_response" =>
        /\ Len(completions) <= 2
        /\ Len(completions) >= 1 => completions[1].model = ModelToUse(call.model)
        /\ Len(completions) = 2 =>
              /\ ~completions[1].ok
              /\ completions[1].model # fallback_model
              /\ completions[2].model = fallback_model
        /\ (Returned /\ completions # <<>> /\ ~completions[Len(completions)].ok) =>
              /\ completions[Len(completions)].model = fallback_model
              /\ ret = _generate_fallback_response(call.prompt)

(* C25.  generate_response always returns a text, whichever completions    *)
(* fail: the answer of the model whose completion returned, or the static  *)
(* text of the prompt when every attempt has failed; and without LiteLLM   *)
(* the static text, with no completion attempted.  No failure of a         *)
(* completion reaches the caller.                                          *)
IsText(v) == "text" \in DOMAIN v

AllFailed == \A i \in DOMAIN completions : ~completions[i].ok

C25_AlwaysReturnsText ==
    Returned =>
        /\ IsText(ret)
        /\ ~IsRaised(ret)
        /\ AllFailed => ret = _generate_fallback_response(call.prompt)
        /\ ~AllFailed =>
              ret = Answer(completions[Len(completions)].model, call.prompt)
        /\ ~LITELLM_AVAILABLE => completions = <<>>

\* The primary and the fallback completion have both failed.
C25_Witness ==
    /\ Returned
    /\ Len(completions) = 2
    /\ AllFailed
    /\ completions[2].model = fallback_model
    /\ ret = StaticText("default")

(* C28.  The history of a bot has an even length and alternates user,      *)
(* assistant.  A call of generate_response that returns the answer of a    *)
(* model has appended the prompt and that answer, in this order, and       *)
(* nothing else; one that returns the static text, and one still in        *)
(* progress, has left the history as it was; clear_history leaves it       *)
(* empty.                                                                  *)
C28_HistoryInPairs ==
    /\ Len(conversation_history) % 2 = 0
    /\ \A i \in DOMAIN conversation_history :
          conversation_history[i].role = IF i % 2 = 1 THEN "user" ELSE "assistant"
    /\ (Returned /\ ret.text = "answer") =>
          conversation_history =
              call.history \o <<[role |-> "user", content |-> call.prompt],
                                [role |-> "assistant", content |-> ret]>>
    /\ (Returned /\ ret.text = "static") => conversation_history = call.history
    /\ (call.op = "generate_response" /\ stack # <<>>) =>
          conversation_history = call.history
    /\ call.op = "clear_history" => conversation_history = <<>>

\* The fallback model has answered, after an earlier exchange.
C28_Witness ==
    /\ Returned
    /\ ret.text = "answer"
    /\ Len(completions) = 2
    /\ call.history # <<>>
    /\ Len(conversation_history) = Len(call.history) + 2

(* C26.  A call of load_crime_data that finds no cache file while the      *)
(* download fails does not raise: it returns the demonstration table as    *)
(* the normaliser leaves it and writes no cache file; and every call that  *)
(* finds no cache file attempts the download, a call that follows a failed *)
(* download included.                                                      *)
IsDemoTable(v) ==
    \E faits \in [1..MaxDemoRows -> DemoCounts] : v = CleanOf(_create_demo_data(faits))

C26_FailedDownloadGivesDemoAndRetries ==
    (call.op = "load_crime_data" /\ ~call.cached) =>
        /\ call.download # "none"
        /\ call.network = "down" =>
              /\ call.download = "failed"
              /\ ~IsRaised(ret)
              /\ IsDemoTable(ret)
              /\ cache_file = None

(* C27.  A call of load_crime_data made while the remote file can be read, *)
(* or after it has been read, returns the normalised first                 *)
(* min(sample_size, number of lines) lines of the remote file, all of them *)
(* for None, whatever the sample_size of the call that wrote the cache     *)
(* file; and a call that finds the cache file attempts no download.        *)
C27_SampleOfTheSource ==
    call.op = "load_crime_data" =>
        /\ call.cached => call.download = "none"
        /\ cache_file # None =>
              ret = CleanOf(read_csv(SourceText, call.sample_size))

====
